---- MODULE Spec2Model ----
(***************************************************************************)
(* State-machine model of HumbleBundlePlugin (src/src/plugin.py).          *)
(*                                                                         *)
(* The plugin runs on one asyncio event loop.  Every action below is the   *)
(* code a coroutine or handler executes between two suspension points      *)
(* (await), so an action is atomic exactly where the event loop makes the  *)
(* code atomic.  Calls into collaborators that are not part of plugin.py   *)
(* (LibraryResolver, Settings, AppFinder, the remote API, the download     *)
(* resolver, the key helper process) are inputs: their outcome is chosen   *)
(* with \E among "returns a value" and "raises".                           *)
(***************************************************************************)
EXTENDS Integers, Sequences, FiniteSets, TLC

\* ------------------------------------------------------------------ bounds

\* Game ids (machine_name) of the catalogue, one per OwnedProduct variant.
Ids == {"a", "b", "c"}

\* The variant of each catalogue product (model.game: Key, Subproduct, TroveGame).
KindOf == [a |-> "Key", b |-> "Subproduct", c |-> "TroveGame"]

\* Values of the ownership part of the user's config (Settings.owned).
Configs == {"cfg1", "cfg2"}

\* Values a LocalGame's state property can take.
States == {"Installed", "Running"}

\* Every dict a resolve can return (any set of catalogue products).
Libraries == SUBSET Ids

\* get_owned_games calls the host may have in progress at once.
MaxGog == 2

\* install_game calls the host may have in progress at once.
MaxCalls == 2

\* Status notifications per id kept in the host-side record `notified`.
StatusWindow == 3

\* get_local_games calls the host may have in progress at once.
MaxGlg == 1

\* Ids the local install tracker can find installed, and the install
\* (LocalGame object) it can report for one.
Installable == {"a", "b"}
Installs == {"inst1", "inst2"}

Slots == {"owned", "statuses", "installed"}
CallIds == 1..MaxCalls

\* ------------------------------------------------------------------- state

VARIABLES
    owned_games,            \* keys of self._owned_games (the product of id i is KindOf[i])
    local_games,            \* self._local_games: function from some ids to Installs
    cached_game_states,     \* self._cached_game_states: function from some ids to States
    getting_owned_games,    \* self._getting_owned_games (asyncio.Event): is_set()
    check_owned_task,       \* position of the task self._check_owned_task refers to
    check_statuses_task,    \* position of the task self._check_statuses_task refers to
    check_installed_task,   \* position of the task self._check_installed_task refers to
    orphaned,               \* per slot: unfinished tasks no attribute refers to any more
    under_instalation,      \* self.__under_instalation
    install_calls,          \* per host call slot: position and game_id of an install_game call
    gog_calls,              \* get_owned_games coroutines suspended in the resolver (line 108)
    settings_owned,         \* self._settings.owned, the config as last loaded
    config_file,            \* what the user's config file currently says
    old_ids,                \* local old_ids of the running _check_owned (line 209)
    glg_calls,              \* get_local_games calls of the host suspended in find_local_games (line 163)
    host_owned,             \* the host's view of the owned set: last get_owned_games result, then add_game/remove_game
    unresolved,             \* a changed config was detected, its resolve failed and was not redone since
    out,                    \* what the latest step did to the outside: calls, notifications, reports
    obs,                    \* what the latest step read: game.state of each game, or the games found
    notified                \* per id: the last StatusWindow states the host was notified of

vars == <<owned_games, local_games, cached_game_states, getting_owned_games,
          check_owned_task, check_statuses_task, check_installed_task, orphaned,
          under_instalation, install_calls, gog_calls, settings_owned, config_file,
          old_ids, glg_calls, host_owned, unresolved, out, obs, notified>>

\* Groups of variables, for UNCHANGED.
taskVars == <<check_owned_task, check_statuses_task, check_installed_task, orphaned>>
ownedVars == <<owned_games, old_ids, host_owned, unresolved>>
gogVars == <<getting_owned_games, gog_calls>>
configVars == <<settings_owned, config_file>>
localVars == <<local_games, glg_calls>>
statusVars == <<cached_game_states, notified>>
installVars == <<under_instalation, install_calls>>

\* ----------------------------------------------------------------- helpers

\* The empty function (an empty dict).
EmptyMap == [i \in {} |-> "x"]

NoCall == [pc |-> "idle", id |-> "-"]

\* All orders in which a for loop can visit the elements of S.
RECURSIVE Orders(_)
Orders(S) ==
    IF S = {} THEN {<<>>}
    ELSE UNION {{<<x>> \o s : s \in Orders(S \ {x})} : x \in S}

\* How many elements of s equal e.
Count(s, e) == Cardinality({i \in 1..Len(s) : s[i] = e})

\* Log entry: what a collaborator or a statement raised.
Raised(what) == <<"raised", what>>

\* Log entry: the library resolver raised when called with strategy mode.
ResolverRaised(mode) == <<"resolver_raised", mode>>

\* asyncio.Task.done(): the task returned or ended with an exception.
ReturnedOnly(task) == task = "done"
Done(task) == task \in {"done", "failed"}

\* -------------------------------------------------------------------- Init

\* __init__ (lines 53-70) and handshake_complete (lines 78-89): empty maps,
\* the event clear, three sleep tasks pending, the settings loaded from the
\* config file.
Init ==
    /\ owned_games = {}
    /\ local_games = EmptyMap
    /\ cached_game_states = EmptyMap
    /\ getting_owned_games = FALSE
    /\ check_owned_task = "sleep"
    /\ check_statuses_task = "sleep"
    /\ check_installed_task = "sleep"
    /\ orphaned = [s \in Slots |-> 0]
    /\ under_instalation = {}
    /\ install_calls = [c \in CallIds |-> NoCall]
    /\ gog_calls = 0
    /\ settings_owned \in Configs
    /\ config_file = settings_owned
    /\ old_ids = {}
    /\ glg_calls = 0
    /\ host_owned = {}
    /\ unresolved = FALSE
    /\ out = <<>>
    /\ obs = EmptyMap
    /\ notified = [i \in Ids |-> <<>>]

\* ------------------------------------------------------------------- tick

\* Line 240: the condition under which tick() creates an ownership task.
StartOwned == Done(check_owned_task) /\ ~getting_owned_games

\* Line 243.
StartStatuses == Done(check_statuses_task)

\* Line 246.
StartInstalled == Done(check_installed_task)

\* asyncio.create_task + assignment to the slot's attribute: the attribute
\* refers to the new task; a task it referred to that is not finished keeps
\* running with nothing referring to it.
Spawned(start, task) == IF start /\ ~Done(task) THEN 1 ELSE 0

CreateEvents(start, slot) == IF start THEN <<<<"create_task", slot>>>> ELSE <<>>

\* tick(), lines 239-247.
Tick ==
    /\ check_owned_task' = IF StartOwned THEN "created" ELSE check_owned_task
    /\ check_statuses_task' = IF StartStatuses THEN "created" ELSE check_statuses_task
    /\ check_installed_task' = IF StartInstalled THEN "created" ELSE check_installed_task
    /\ orphaned' = [orphaned EXCEPT
                      !["owned"] = @ + Spawned(StartOwned, check_owned_task),
                      !["statuses"] = @ + Spawned(StartStatuses, check_statuses_task),
                      !["installed"] = @ + Spawned(StartInstalled, check_installed_task)]
    /\ out' = <<<<"tick">>>> \o CreateEvents(StartOwned, "owned")
                \o CreateEvents(StartStatuses, "statuses")
                \o CreateEvents(StartInstalled, "installed")
    /\ obs' = EmptyMap
    /\ UNCHANGED <<ownedVars, gogVars, configVars, localVars, statusVars, installVars>>

\* The asyncio.sleep a slot's task is suspended in returns (the tasks of
\* lines 66-68, and the sleeps of lines 232 and 237): the task is finished.
OwnedSleepDone ==
    /\ check_owned_task = "sleep"
    /\ check_owned_task' = "done"
    /\ out' = <<>> /\ obs' = EmptyMap
    /\ UNCHANGED <<check_statuses_task, check_installed_task, orphaned, ownedVars,
                   gogVars, configVars, localVars, statusVars, installVars>>

StatusesSleepDone ==
    /\ check_statuses_task = "sleep"
    /\ check_statuses_task' = "done"
    /\ out' = <<>> /\ obs' = EmptyMap
    /\ UNCHANGED <<check_owned_task, check_installed_task, orphaned, ownedVars,
                   gogVars, configVars, localVars, statusVars, installVars>>

InstalledSleepDone ==
    /\ check_installed_task = "sleep"
    /\ check_installed_task' = "done"
    /\ out' = <<>> /\ obs' = EmptyMap
    /\ UNCHANGED <<check_owned_task, check_statuses_task, orphaned, ownedVars,
                   gogVars, configVars, localVars, statusVars, installVars>>

\* --------------------------------------------------------- get_owned_games

\* Lines 106-108 up to the await: set the event, call the resolver (FETCH).
GetOwnedGamesCall ==
    /\ gog_calls < MaxGog
    /\ getting_owned_games' = TRUE
    /\ gog_calls' = gog_calls + 1
    /\ out' = <<<<"get_owned_games">>>>
    /\ obs' = EmptyMap
    /\ UNCHANGED <<taskVars, ownedVars, configVars, localVars, statusVars, installVars>>

\* Lines 108-110 after the await: the resolver returned lib.
GetOwnedGamesReturn(lib) ==
    /\ gog_calls > 0
    /\ owned_games' = lib
    /\ getting_owned_games' = FALSE
    /\ gog_calls' = gog_calls - 1
    /\ host_owned' = lib
    /\ out' = <<<<"return", "get_owned_games">>>>
    /\ obs' = EmptyMap
    /\ UNCHANGED <<taskVars, old_ids, unresolved, configVars, localVars, statusVars,
                   installVars>>

\* Line 108 has no except clause: what the resolver raised leaves
\* get_owned_games to its caller.
Swallowed == <<<<"return", "get_owned_games">>>>
FetchFailed == <<<<"raise", "get_owned_games">>>>

\* Line 108: the resolver raised; the exception leaves get_owned_games there,
\* lines 109-110 are not executed.
GetOwnedGamesRaise ==
    /\ gog_calls > 0
    /\ gog_calls' = gog_calls - 1
    /\ out' = <<ResolverRaised("FETCH")>> \o FetchFailed
    /\ obs' = EmptyMap
    /\ UNCHANGED <<taskVars, ownedVars, getting_owned_games, configVars, localVars,
                   statusVars, installVars>>

\* ------------------------------------------------------------ _check_owned

\* The user edits the ownership section of the config file.
ConfigChange ==
    /\ \E c \in Configs \ {config_file} : config_file' = c
    /\ unresolved' = FALSE
    /\ out' = <<>> /\ obs' = EmptyMap
    /\ UNCHANGED <<taskVars, owned_games, old_ids, host_owned, gogVars, settings_owned,
                   localVars, statusVars, installVars>>

\* Settings.reload_local_config_if_changed (line 206): self._settings.owned
\* becomes what the file says.
ReloadedSettings == config_file

\* Lines 212-213: one remove_game per id of old_ids - new keys.
RemovedAll(old, new) == old
RemovedIds(old, new) == old \ new

\* Lines 214-215: one add_game per id of new keys - old_ids.
AddedIds(old, new) == new \ old

RemoveEvent(i) == <<"remove_game", i>>
AddEvent(i) == <<"add_game", i>>

\* Lines 212-215: the notifications of one cycle, removals first; the order
\* inside each loop is the set's iteration order.
AdditionsFirst(old, new) ==
    {[k \in 1..Len(a) |-> AddEvent(a[k])] \o [k \in 1..Len(r) |-> RemoveEvent(r[k])] :
        r \in Orders(RemovedIds(old, new)), a \in Orders(AddedIds(old, new))}
DiffEvents(old, new) ==
    {[k \in 1..Len(r) |-> RemoveEvent(r[k])] \o [k \in 1..Len(a) |-> AddEvent(a[k])] :
        r \in Orders(RemovedIds(old, new)), a \in Orders(AddedIds(old, new))}

\* Line 207: old_settings != self._settings.owned.
AlwaysChanged(old, new) == TRUE
SettingsChanged(old, new) == old # new

\* The host's view after the notifications of one cycle, applied in order.
RECURSIVE Applied(_, _)
Applied(view, events) ==
    IF events = <<>> THEN view
    ELSE Applied(IF Head(events)[1] = "remove_game" THEN view \ {Head(events)[2]}
                 ELSE view \cup {Head(events)[2]},
                 Tail(events))

\* Lines 205-210 up to the await: snapshot, reload, compare.
CheckOwnedBegin ==
    /\ check_owned_task = "created"
    /\ settings_owned' = ReloadedSettings
    /\ IF SettingsChanged(settings_owned, ReloadedSettings)
         THEN /\ old_ids' = owned_games
              /\ check_owned_task' = "resolving"
         ELSE /\ old_ids' = old_ids
              /\ check_owned_task' = "done"
    /\ out' = <<<<"_check_owned">>>>
    /\ obs' = EmptyMap
    /\ UNCHANGED <<check_statuses_task, check_installed_task, orphaned, owned_games,
                   host_owned, unresolved, gogVars, config_file, localVars, statusVars,
                   installVars>>

\* Lines 210-215 after the await: the resolver (CACHE) returned lib.
CheckOwnedResolved(lib) ==
    /\ check_owned_task = "resolving"
    /\ owned_games' = lib
    /\ out' \in DiffEvents(old_ids, lib)
    /\ old_ids' = {}
    /\ host_owned' = Applied(host_owned, out')
    /\ unresolved' = FALSE
    /\ check_owned_task' = "done"
    /\ obs' = EmptyMap
    /\ UNCHANGED <<check_statuses_task, check_installed_task, orphaned, gogVars,
                   configVars, localVars, statusVars, installVars>>

\* Line 210: the resolver raised; the task ends with that exception.
CheckOwnedRaise ==
    /\ check_owned_task = "resolving"
    /\ old_ids' = {}
    /\ unresolved' = TRUE
    /\ check_owned_task' = "failed"
    /\ out' = <<ResolverRaised("CACHE")>> /\ obs' = EmptyMap
    /\ UNCHANGED <<check_statuses_task, check_installed_task, orphaned, owned_games,
                   host_owned, gogVars, configVars, localVars, statusVars, installVars>>

\* --------------------------------------------------------- _check_statuses

\* Line 228: self._cached_game_states.get(game.id).
CachedState(i) ==
    IF i \in DOMAIN cached_game_states THEN cached_game_states[i] ELSE "absent"

\* Lines 228-229: the games of the snapshot the loop does not skip.
ChangedAlways(st) == DOMAIN st
Changed(st) == {i \in DOMAIN st : st[i] # CachedState(i)}

\* Line 231, for every game the loop did not skip.
CacheUpdated(st) ==
    [i \in DOMAIN cached_game_states \cup Changed(st) |->
        IF i \in Changed(st) THEN st[i] ELSE cached_game_states[i]]

\* Line 230: update_local_game_status(LocalGame(game.id, state)).
StatusEvent(i, st) == <<"update_local_game_status", i, st[i]>>

\* The host's record of one id after one more notification.
Push(w, s) == IF Len(w) < StatusWindow THEN Append(w, s) ELSE Append(Tail(w), s)

\* Lines 225-232 up to the await: one pass over a snapshot of the local
\* games; st is what game.state reads for each of them.
CheckStatusesRun(st) ==
    /\ check_statuses_task = "created"
    /\ DOMAIN st = DOMAIN local_games
    /\ \E order \in Orders(Changed(st)) :
          out' = <<<<"_check_statuses">>>> \o
                 [k \in 1..Len(order) |-> StatusEvent(order[k], st)]
    /\ cached_game_states' = CacheUpdated(st)
    /\ notified' = [i \in Ids |->
                      IF i \in Changed(st) THEN Push(notified[i], st[i]) ELSE notified[i]]
    /\ obs' = st
    /\ check_statuses_task' = "sleep"
    /\ UNCHANGED <<check_owned_task, check_installed_task, orphaned, ownedVars,
                   gogVars, configVars, localVars, installVars>>

\* Line 227: game.state raised for the game the loop reached after those of
\* st; the games before it were handled (lines 228-231), the task ends with
\* the exception.
CheckStatusesRaise(st) ==
    /\ check_statuses_task = "created"
    /\ DOMAIN st \subseteq DOMAIN local_games
    /\ DOMAIN st # DOMAIN local_games
    /\ \E order \in Orders(Changed(st)) :
          out' = <<<<"_check_statuses">>>> \o
                 [k \in 1..Len(order) |-> StatusEvent(order[k], st)] \o
                 <<Raised("state")>>
    /\ cached_game_states' = CacheUpdated(st)
    /\ notified' = [i \in Ids |->
                      IF i \in Changed(st) THEN Push(notified[i], st[i]) ELSE notified[i]]
    /\ obs' = st
    /\ check_statuses_task' = "failed"
    /\ UNCHANGED <<check_owned_task, check_installed_task, orphaned, ownedVars,
                   gogVars, configVars, localVars, installVars>>

\* -------------------------------------- _check_installed / get_local_games

\* Line 164: dict.update, entries of the same id are overwritten.
Replaced(found) == found
Merged(found) ==
    [i \in DOMAIN local_games \cup DOMAIN found |->
        IF i \in DOMAIN found THEN found[i] ELSE local_games[i]]

\* Lines 236 and 154-163 up to the await, as run by the installed task:
\* nothing owned, or refresh() raised (reported, lines 159-161): the call
\* returns [] and the task goes on to sleep (line 237); otherwise the task is
\* suspended in find_local_games.
CheckInstalledBegin ==
    /\ check_installed_task = "created"
    /\ \/ /\ owned_games = {}
          /\ check_installed_task' = "sleep"
          /\ out' = <<<<"_check_installed">>>>
       \/ /\ owned_games # {}
          /\ check_installed_task' = "sleep"
          /\ out' = <<<<"_check_installed">>, Raised("refresh"), <<"report", "None">>>>
       \/ /\ owned_games # {}
          /\ check_installed_task' = "finding"
          /\ out' = <<<<"_check_installed">>>>
    /\ obs' = EmptyMap
    /\ UNCHANGED <<check_owned_task, check_statuses_task, orphaned, ownedVars,
                   gogVars, configVars, localVars, statusVars, installVars>>

\* Lines 163-166 and 237: find_local_games returned found.
CheckInstalledFound(found) ==
    /\ check_installed_task = "finding"
    /\ local_games' = Merged(found)
    /\ check_installed_task' = "sleep"
    /\ out' = <<<<"found", "local_games">>>>
    /\ obs' = found
    /\ UNCHANGED <<check_owned_task, check_statuses_task, orphaned, ownedVars,
                   gogVars, configVars, glg_calls, statusVars, installVars>>

\* Line 163: find_local_games raised; nothing catches it, the task ends
\* with the exception.
CheckInstalledFindRaise ==
    /\ check_installed_task = "finding"
    /\ check_installed_task' = "failed"
    /\ out' = <<Raised("find_local_games")>>
    /\ obs' = EmptyMap
    /\ UNCHANGED <<check_owned_task, check_statuses_task, orphaned, ownedVars,
                   gogVars, configVars, localVars, statusVars, installVars>>

\* get_local_games called by the host, lines 153-163 up to the await: the
\* same three outcomes as in the installed task, the first two returning [].
GetLocalGamesCall ==
    /\ glg_calls < MaxGlg
    /\ \/ /\ owned_games = {}
          /\ glg_calls' = glg_calls
          /\ out' = <<<<"get_local_games">>, <<"return", "get_local_games", {}>>>>
       \/ /\ owned_games # {}
          /\ glg_calls' = glg_calls
          /\ out' = <<<<"get_local_games">>, Raised("refresh"), <<"report", "None">>,
                      <<"return", "get_local_games", {}>>>>
       \/ /\ owned_games # {}
          /\ glg_calls' = glg_calls + 1
          /\ out' = <<<<"get_local_games">>>>
    /\ obs' = EmptyMap
    /\ UNCHANGED <<taskVars, ownedVars, gogVars, configVars, local_games, statusVars,
                   installVars>>

\* Lines 163-166: find_local_games returned found to a call of the host;
\* the call returns every local game known.
GetLocalGamesFound(found) ==
    /\ glg_calls > 0
    /\ glg_calls' = glg_calls - 1
    /\ local_games' = Merged(found)
    /\ out' = <<<<"found", "local_games">>,
                <<"return", "get_local_games", DOMAIN Merged(found)>>>>
    /\ obs' = found
    /\ UNCHANGED <<taskVars, ownedVars, gogVars, configVars, statusVars, installVars>>

\* Line 163: find_local_games raised in a call of the host; the exception
\* leaves get_local_games.
GetLocalGamesFindRaise ==
    /\ glg_calls > 0
    /\ glg_calls' = glg_calls - 1
    /\ out' = <<Raised("find_local_games"), <<"raise", "get_local_games">>>>
    /\ obs' = EmptyMap
    /\ UNCHANGED <<taskVars, ownedVars, gogVars, configVars, local_games, statusVars,
                   installVars>>

\* ----------------------------------------------- launch_game, uninstall_game

\* Lines 170 and 178: self._local_games[game_id] does not raise KeyError.
KnownAlways(id) == TRUE
Known(id) == id \in DOMAIN local_games

\* Lines 176-182: uninstall_game has no statement that changes
\* self._local_games.
Dropped(id) == [i \in DOMAIN local_games \ {id} |-> local_games[i]]
AfterUninstall(id) == local_games

\* launch_game, lines 168-174.
LaunchGame(id) ==
    /\ out' = IF Known(id)
                THEN <<<<"launch_game", id>>, <<"run", id>>>>
                ELSE <<<<"launch_game", id>>, <<"report", "local_games">>>>
    /\ obs' = EmptyMap
    /\ UNCHANGED <<taskVars, ownedVars, gogVars, configVars, localVars, statusVars,
                   installVars>>

\* uninstall_game, lines 176-182.
UninstallGame(id) ==
    /\ out' = IF Known(id)
                THEN <<<<"uninstall_game", id>>, <<"uninstall", id>>>>
                ELSE <<<<"uninstall_game", id>>, <<"report", "local_games">>>>
    /\ local_games' = AfterUninstall(id)
    /\ obs' = EmptyMap
    /\ UNCHANGED <<taskVars, ownedVars, gogVars, configVars, glg_calls, statusVars,
                   installVars>>

\* ------------------------------------------------------------ install_game

CallEvent(id) == <<"install_game", id>>
ReturnEvent == <<"return", "install_game">>

\* Line 113: the in-flight check.
NeverInFlight(id) == FALSE
InFlight(id) == id \in under_instalation

\* Line 118: what self._owned_games.get(game_id) binds game to.
Game(id) == IF id \in owned_games THEN id ELSE "None"

\* Lines 150-151: the finally clause, run however the try block was left
\* (how is "return", "end" or "except").
KeptOnExcept(marked, id, how) == IF how = "except" THEN marked ELSE marked \ {id}
AfterFinally(marked, id, how) == marked \ {id}

\* Lines 147-149: every Exception of the try block is reported with game as
\* context and logged; the call then returns.
Propagated(game) == <<<<"raise", "install_game">>>>
Handled(game) == <<<<"report", game>>, ReturnEvent>>

\* Lines 141-143: AuthenticationRequired from get_trove_sign_url.
LapsedAsError(game) == Handled(game)
LapsedEntitlement(game) == <<<<"open", "subscriber">>, ReturnEvent>>

\* The call in slot c, marked in flight for id, leaves install_game.
Leave(c, id, how, events) ==
    /\ install_calls' = [install_calls EXCEPT ![c] = NoCall]
    /\ under_instalation' = AfterFinally(under_instalation \cup {id}, id, how)
    /\ out' = events

\* The call in slot c is suspended at pc, marked in flight for id.
Suspend(c, id, pc, events) ==
    /\ install_calls' = [install_calls EXCEPT ![c] = [pc |-> pc, id |-> id]]
    /\ under_instalation' = under_instalation \cup {id}
    /\ out' = events

\* install_game(id), lines 112-151, from the call to its first await or its
\* return.  Unknown id: RuntimeError (line 120).  Key: suspended in
\* create_subprocess_exec (line 126).  Subproduct: the download resolver
\* (line 134) and line 136 run without suspension; either may raise.
\* TroveGame: the download resolver may raise, otherwise the call is
\* suspended in get_trove_sign_url (line 140).
InstallGameCall(c, id) ==
    /\ install_calls[c].pc = "idle"
    /\ IF InFlight(id)
         THEN /\ out' = <<CallEvent(id), ReturnEvent>>
              /\ UNCHANGED installVars
         ELSE IF Game(id) = "None"
         THEN Leave(c, id, "except",
                    <<CallEvent(id), Raised("not_found")>> \o Handled(Game(id)))
         ELSE IF KindOf[id] = "Key"
         THEN Suspend(c, id, "key_spawn", <<CallEvent(id)>>)
         ELSE IF KindOf[id] = "Subproduct"
         THEN \/ Leave(c, id, "except",
                       <<CallEvent(id), Raised("download_resolver")>> \o Handled(Game(id)))
              \/ Leave(c, id, "end", <<CallEvent(id), <<"open", "web">>, ReturnEvent>>)
              \/ Leave(c, id, "except",
                       <<CallEvent(id), Raised("open_web")>> \o Handled(Game(id)))
         ELSE \/ Leave(c, id, "except",
                       <<CallEvent(id), Raised("download_resolver")>> \o Handled(Game(id)))
              \/ Suspend(c, id, "trove_sign", <<CallEvent(id)>>)
    /\ obs' = EmptyMap
    /\ UNCHANGED <<taskVars, ownedVars, gogVars, configVars, localVars, statusVars>>

\* Lines 126-128: the helper process was created; the call is suspended in
\* communicate().
KeySpawned(c) ==
    /\ install_calls[c].pc = "key_spawn"
    /\ Suspend(c, install_calls[c].id, "key_comm", <<<<"spawned", "keysgui">>>>)
    /\ obs' = EmptyMap
    /\ UNCHANGED <<taskVars, ownedVars, gogVars, configVars, localVars, statusVars>>

\* Lines 128-132: communicate() returned (stderr is only logged); return.
KeyCommunicated(c) ==
    /\ install_calls[c].pc = "key_comm"
    /\ Leave(c, install_calls[c].id, "return", <<<<"communicated", "keysgui">>, ReturnEvent>>)
    /\ obs' = EmptyMap
    /\ UNCHANGED <<taskVars, ownedVars, gogVars, configVars, localVars, statusVars>>

\* Lines 126 or 128: create_subprocess_exec or communicate() raised.
KeyHelperRaise(c) ==
    /\ install_calls[c].pc \in {"key_spawn", "key_comm"}
    /\ Leave(c, install_calls[c].id, "except",
             <<Raised(IF install_calls[c].pc = "key_spawn"
                        THEN "create_subprocess_exec" ELSE "communicate")>>
             \o Handled(install_calls[c].id))
    /\ obs' = EmptyMap
    /\ UNCHANGED <<taskVars, ownedVars, gogVars, configVars, localVars, statusVars>>

\* Lines 140, 144-145: the signed URL arrived and is opened; line 145 may
\* raise (url['signed_url']).
TroveSigned(c) ==
    /\ install_calls[c].pc = "trove_sign"
    /\ \/ Leave(c, install_calls[c].id, "end",
                <<<<"signed", "url">>, <<"open", "signed_url">>, ReturnEvent>>)
       \/ Leave(c, install_calls[c].id, "except",
                <<<<"signed", "url">>, Raised("signed_url")>>
                \o Handled(install_calls[c].id))
    /\ obs' = EmptyMap
    /\ UNCHANGED <<taskVars, ownedVars, gogVars, configVars, localVars, statusVars>>

\* Lines 140-143: get_trove_sign_url raised AuthenticationRequired.
TroveAuthenticationRequired(c) ==
    /\ install_calls[c].pc = "trove_sign"
    /\ Leave(c, install_calls[c].id, "end",
             <<Raised("AuthenticationRequired")>> \o LapsedEntitlement(install_calls[c].id))
    /\ obs' = EmptyMap
    /\ UNCHANGED <<taskVars, ownedVars, gogVars, configVars, localVars, statusVars>>

\* Line 140: get_trove_sign_url raised another exception.
TroveSignRaise(c) ==
    /\ install_calls[c].pc = "trove_sign"
    /\ Leave(c, install_calls[c].id, "except",
             <<Raised("get_trove_sign_url")>> \o Handled(install_calls[c].id))
    /\ obs' = EmptyMap
    /\ UNCHANGED <<taskVars, ownedVars, gogVars, configVars, localVars, statusVars>>

\* ---------------------------------------------------------- specifications

\* The scheduler and the ownership side: the host ticks and calls
\* get_owned_games, the user edits the config; no game is installed locally.
Next ==
    \/ Tick
    \/ OwnedSleepDone
    \/ StatusesSleepDone
    \/ InstalledSleepDone
    \/ GetOwnedGamesCall
    \/ \E lib \in Libraries : GetOwnedGamesReturn(lib)
    \/ GetOwnedGamesRaise
    \/ ConfigChange
    \/ CheckOwnedBegin
    \/ \E lib \in Libraries : CheckOwnedResolved(lib)
    \/ CheckOwnedRaise
    \/ CheckStatusesRun(EmptyMap)
    \/ CheckInstalledBegin
    \/ CheckInstalledFound(EmptyMap)
    \/ CheckInstalledFindRaise

Spec == Init /\ [][Next]_vars

\* The dispatch side: the host calls get_owned_games and install_game.
NextInstall ==
    \/ GetOwnedGamesCall
    \/ \E lib \in Libraries : GetOwnedGamesReturn(lib)
    \/ GetOwnedGamesRaise
    \/ \E c \in CallIds, id \in Ids : InstallGameCall(c, id)
    \/ \E c \in CallIds : KeySpawned(c)
    \/ \E c \in CallIds : KeyCommunicated(c)
    \/ \E c \in CallIds : KeyHelperRaise(c)
    \/ \E c \in CallIds : TroveSigned(c)
    \/ \E c \in CallIds : TroveAuthenticationRequired(c)
    \/ \E c \in CallIds : TroveSignRaise(c)

SpecInstall == Init /\ [][NextInstall]_vars

\* The local side: the host ticks and calls get_owned_games, which returns
\* a library holding the installable games; the tracker finds installs and
\* the games' states change between polls.
NextStatus ==
    \/ Tick
    \/ OwnedSleepDone
    \/ StatusesSleepDone
    \/ InstalledSleepDone
    \/ GetOwnedGamesCall
    \/ GetOwnedGamesReturn(Installable)
    \/ CheckOwnedBegin
    \/ \E st \in [DOMAIN local_games -> States] : CheckStatusesRun(st)
    \/ CheckInstalledBegin
    \/ \E S \in SUBSET Installable :
          \E found \in [S -> {"inst1"}] : CheckInstalledFound(found)

SpecStatus == Init /\ [][NextStatus]_vars

\* The ownership refresh alone: the host's ticks and get_owned_games calls,
\* the user's config edits and the ownership task; the two other tasks stay
\* in their initial sleep.
NextOwned ==
    \/ Tick
    \/ OwnedSleepDone
    \/ GetOwnedGamesCall
    \/ \E lib \in Libraries : GetOwnedGamesReturn(lib)
    \/ GetOwnedGamesRaise
    \/ ConfigChange
    \/ CheckOwnedBegin
    \/ \E lib \in Libraries : CheckOwnedResolved(lib)
    \/ CheckOwnedRaise

SpecOwned == Init /\ [][NextOwned]_vars

\* The libraries the resolver returns while the local games are followed:
\* an installable game is gained and lost.
LocalLibraries == {{"a"}, {"a", "b"}}

\* What find_local_games can return: any install of any installable id.
Finds == UNION {[S -> Installs] : S \in SUBSET Installable}

\* What it can return when one game with one install exists.
OneFind == {EmptyMap, [i \in {"a"} |-> "inst1"]}

\* The rescans and the host's calls about local games: the installed task,
\* get_local_games, launch_game and uninstall_game, over every find and over
\* libraries that gain and lose an installable game.
NextRescan ==
    \/ Tick
    \/ InstalledSleepDone
    \/ GetOwnedGamesCall
    \/ \E lib \in LocalLibraries : GetOwnedGamesReturn(lib)
    \/ CheckInstalledBegin
    \/ \E found \in Finds : CheckInstalledFound(found)
    \/ CheckInstalledFindRaise
    \/ GetLocalGamesCall
    \/ \E found \in Finds : GetLocalGamesFound(found)
    \/ GetLocalGamesFindRaise
    \/ \E id \in Ids : LaunchGame(id)
    \/ \E id \in Ids : UninstallGame(id)

SpecRescan == Init /\ [][NextRescan]_vars

\* The three background tasks with every way each of them can fail, over one
\* owned game with one install.
NextSlots ==
    \/ Tick
    \/ OwnedSleepDone
    \/ StatusesSleepDone
    \/ InstalledSleepDone
    \/ GetOwnedGamesCall
    \/ GetOwnedGamesReturn({"a"})
    \/ ConfigChange
    \/ CheckOwnedBegin
    \/ CheckOwnedResolved({"a"})
    \/ CheckOwnedRaise
    \/ \E st \in [DOMAIN local_games -> {"Installed"}] : CheckStatusesRun(st)
    \/ \E S \in SUBSET DOMAIN local_games :
          \E st \in [S -> {"Installed"}] : CheckStatusesRaise(st)
    \/ CheckInstalledBegin
    \/ \E found \in OneFind : CheckInstalledFound(found)
    \/ CheckInstalledFindRaise

SpecSlots == Init /\ [][NextSlots]_vars

\* Every handler and every task together, over one owned game with one
\* install and one install_game call at a time.
NextFrame ==
    \/ Tick
    \/ OwnedSleepDone
    \/ StatusesSleepDone
    \/ InstalledSleepDone
    \/ GetOwnedGamesCall
    \/ GetOwnedGamesReturn({"a"})
    \/ ConfigChange
    \/ CheckOwnedBegin
    \/ CheckOwnedResolved({"a"})
    \/ \E st \in [DOMAIN local_games -> {"Installed"}] : CheckStatusesRun(st)
    \/ CheckInstalledBegin
    \/ \E found \in OneFind : CheckInstalledFound(found)
    \/ GetLocalGamesCall
    \/ \E found \in OneFind : GetLocalGamesFound(found)
    \/ \E id \in Ids : LaunchGame(id)
    \/ \E id \in Ids : UninstallGame(id)
    \/ \E id \in Ids : InstallGameCall(1, id)
    \/ KeySpawned(1)
    \/ KeyCommunicated(1)
    \/ KeyHelperRaise(1)

SpecFrame == Init /\ [][NextFrame]_vars

\* ------------------------------------------------------------------ claims

\* The latest step was a call of tick().
IsTick == Len(out) > 0 /\ out[1] = <<"tick">>

\* How many tasks of a slot the latest tick() created.
Created(slot) == Count(out, <<"create_task", slot>>)

\* The unfinished tasks of a slot: the one its attribute refers to, and the
\* ones it no longer refers to.
Unfinished(slot, task) == (IF Done(task) THEN 0 ELSE 1) + orphaned[slot]

\* A get_owned_games call is in progress: a coroutine is inside lines 107-109.
ForegroundInProgress == gog_calls > 0

\* C1: in each of the three slots at most one task is unfinished at any
\* time; a tick() that finds the slot's task unfinished creates none for the
\* slot, and a tick() that finds it finished (ownership: and no
\* get_owned_games call in progress) creates exactly one.
C1_OneTaskPerSlot ==
    /\ [](/\ Unfinished("owned", check_owned_task) <= 1
          /\ Unfinished("statuses", check_statuses_task) <= 1
          /\ Unfinished("installed", check_installed_task) <= 1)
    /\ [][IsTick' =>
            /\ ~Done(check_owned_task) =>
                  Created("owned")' = 0 /\ check_owned_task' = check_owned_task
            /\ ~Done(check_statuses_task) =>
                  Created("statuses")' = 0 /\ check_statuses_task' = check_statuses_task
            /\ ~Done(check_installed_task) =>
                  Created("installed")' = 0 /\ check_installed_task' = check_installed_task
            /\ Done(check_owned_task) /\ ~ForegroundInProgress =>
                  Created("owned")' = 1 /\ check_owned_task' = "created"
            /\ Done(check_statuses_task) =>
                  Created("statuses")' = 1 /\ check_statuses_task' = "created"
            /\ Done(check_installed_task) =>
                  Created("installed")' = 1 /\ check_installed_task' = "created"]_vars

\* An install_game call for id is past the in-flight check and has not returned.
Dispatching(id) == {c \in CallIds : install_calls[c].pc # "idle" /\ install_calls[c].id = id}

\* C2: at most one dispatch per id is executing at any time, and an
\* install_game(id) made while one is executing returns at once: nothing is
\* dispatched, nothing raised, the in-flight set and the calls are unchanged.
C2_AtMostOneDispatch ==
    /\ [](\A id \in Ids : Cardinality(Dispatching(id)) <= 1)
    /\ [][\A id \in Ids :
            (Len(out') > 0 /\ out'[1] = CallEvent(id) /\ Dispatching(id) # {}) =>
                /\ out' = <<CallEvent(id), ReturnEvent>>
                /\ under_instalation' = under_instalation
                /\ install_calls' = install_calls]_vars

\* C2 witness: a second install_game("a") returned at once while the first
\* is still suspended in the key helper.
C2_Witness ==
    /\ out = <<CallEvent("a"), ReturnEvent>>
    /\ Dispatching("a") # {}

\* C3: a get_owned_games call and an ownership-refresh task are never in
\* progress at the same time (the task counted as in progress only while it
\* is suspended in its resolve, line 210).
C3_MutualExclusion == ~(ForegroundInProgress /\ check_owned_task = "resolving")

\* C4: the cycle that re-resolves emits one remove_game for every id of
\* (owned at cycle start minus resolved), one add_game for every id of
\* (resolved minus owned at cycle start), nothing for any other id; old_ids
\* is what was owned when the cycle began.
C4_DiffMinimality ==
    /\ [][(check_owned_task = "created" /\ check_owned_task' = "resolving") =>
            old_ids' = owned_games]_vars
    /\ [][(check_owned_task = "resolving" /\ check_owned_task' = "done") =>
            \A i \in Ids :
                /\ Count(out', RemoveEvent(i)) =
                      (IF i \in old_ids /\ i \notin owned_games' THEN 1 ELSE 0)
                /\ Count(out', AddEvent(i)) =
                      (IF i \in owned_games' /\ i \notin old_ids THEN 1 ELSE 0)
                /\ Len(out') = Cardinality(old_ids \ owned_games')
                                + Cardinality(owned_games' \ old_ids)]_vars

\* C4 witness: a cycle ended with b and c owned, having removed a and added
\* c only: b was owned before and after and produced nothing.
C4_Witness ==
    /\ out = <<RemoveEvent("a"), AddEvent("c")>>
    /\ owned_games = {"b", "c"}
    /\ check_owned_task = "done"

\* C8: tick() creates an ownership task exactly if the ownership slot's
\* task is finished and no get_owned_games call is in progress; it creates
\* a status task and an installed task exactly if their slot's task is
\* finished.
C8_TickStartsIff ==
    [][IsTick' =>
         /\ (Created("owned")' = 1) <=> (Done(check_owned_task) /\ ~ForegroundInProgress)
         /\ (Created("statuses")' = 1) <=> Done(check_statuses_task)
         /\ (Created("installed")' = 1) <=> Done(check_installed_task)]_vars

\* How many status notifications for id the latest step sent.
StatusSent(i) ==
    Cardinality({k \in 1..Len(out) :
                    \E st \in States : out[k] = <<"update_local_game_status", i, st>>})

\* C5: a status poll notifies the host of an id's state exactly if the
\* state it read differs from the cache entry of the id (absent at first),
\* with that state, and the cache entry is then that state; so no two
\* consecutive notifications for an id carry the same state.
C5_StatusDedup ==
    /\ [][(check_statuses_task = "created" /\ check_statuses_task' = "sleep") =>
            /\ DOMAIN obs' = DOMAIN local_games
            /\ \A i \in DOMAIN local_games :
                  IF obs'[i] # CachedState(i)
                    THEN /\ StatusSent(i)' = 1
                         /\ Count(out', <<"update_local_game_status", i, obs'[i]>>) = 1
                         /\ i \in DOMAIN cached_game_states'
                         /\ cached_game_states'[i] = obs'[i]
                    ELSE /\ StatusSent(i)' = 0
                         /\ cached_game_states'[i] = cached_game_states[i]
            /\ \A i \in Ids \ DOMAIN local_games : StatusSent(i)' = 0]_vars
    /\ [](\A i \in Ids : \A k \in 1..(Len(notified[i]) - 1) :
             notified[i][k] # notified[i][k + 1])
    /\ [](\A i \in Ids : notified[i] # <<>> =>
             /\ i \in DOMAIN cached_game_states
             /\ cached_game_states[i] = notified[i][Len(notified[i])])

\* C5 witness: the host was told Installed, Running, Installed of game a,
\* the last of them in the latest poll.
C5_Witness ==
    /\ notified["a"] = <<"Installed", "Running", "Installed">>
    /\ Count(out, <<"update_local_game_status", "a", "Installed">>) = 1

\* C6: the in-flight set holds exactly the ids a dispatch is executing for
\* (so it is empty when none is), and an install_game(id) made when none is
\* executing for id dispatches.
C6_MarkerReleased ==
    /\ [](under_instalation = {id \in Ids : Dispatching(id) # {}})
    /\ [][\A id \in Ids :
            (Len(out') > 0 /\ out'[1] = CallEvent(id) /\ Dispatching(id) = {}) =>
                out' # <<CallEvent(id), ReturnEvent>>]_vars

\* C6 witness: a dispatch of c left through the except clause and c is not
\* in flight.
C6_Witness ==
    /\ out = <<Raised("get_trove_sign_url"), <<"report", "c">>, ReturnEvent>>
    /\ "c" \notin under_instalation

\* The log entries of the latest step that report a problem.
Reports == {k \in 1..Len(out) : out[k][1] = "report"}

\* C7: when get_trove_sign_url raises AuthenticationRequired the call opens
\* the subscription page and no signed URL, reports nothing, raises nothing
\* and returns.
C7_LapsedEntitlement ==
    [][(Len(out') > 0 /\ out'[1] = Raised("AuthenticationRequired")) =>
         /\ Count(out', <<"open", "subscriber">>) = 1
         /\ Count(out', <<"open", "signed_url">>) = 0
         /\ Reports' = {}
         /\ Count(out', <<"raise", "install_game">>) = 0
         /\ out'[Len(out')] = ReturnEvent
         /\ \E c \in CallIds :
               install_calls[c].pc = "trove_sign" /\ install_calls'[c] = NoCall]_vars

\* C7 witness: the step in which AuthenticationRequired arrived.
C7_Witness ==
    out = <<Raised("AuthenticationRequired"), <<"open", "subscriber">>, ReturnEvent>>

\* What game is bound to in the call the latest step belongs to (priming
\* the use gives the step's call): for a call that ran from its start, the
\* owned product of the id or None; for a resumed call, its product.
GameOfStep(o, owned, before, after) ==
    IF o[1][1] = "install_game"
      THEN (IF o[1][2] \in owned THEN o[1][2] ELSE "None")
      ELSE CHOOSE g \in Ids \cup {"None"} :
              \E c \in CallIds : before[c].pc # "idle" /\ after[c] = NoCall
                                 /\ g = before[c].id

\* C10: install_game never raises; when the id is unknown or anything but
\* the trove AuthenticationRequired is raised while dispatching, the
\* exception is reported once, with game as context, and the call returns.
C10_NeverRaises ==
    /\ [](Count(out, <<"raise", "install_game">>) = 0)
    /\ [][(\E k \in 1..Len(out') :
              out'[k][1] = "raised" /\ out'[k][2] # "AuthenticationRequired") =>
            /\ Cardinality(Reports') = 1
            /\ Count(out', <<"report",
                     GameOfStep(out', owned_games, install_calls, install_calls')>>) = 1
            /\ out'[Len(out')] = ReturnEvent
            /\ \A c \in CallIds : install_calls'[c] # install_calls[c] =>
                                     install_calls'[c] = NoCall]_vars

\* C10 witness: communicate() raised in the key dispatch of a; the problem
\* was reported with a as context and the call returned.
C10_Witness ==
    out = <<Raised("communicate"), <<"report", "a">>, ReturnEvent>>

\* C10 witness for the unknown id.
C10_WitnessUnknown ==
    out = <<CallEvent("b"), Raised("not_found"), <<"report", "None">>, ReturnEvent>>

\* ------------------------------------------------- tracker failures (C11)

\* The local install tracker raised in the step that produced the log o.
TrackerRaised(o) ==
    \E k \in 1..Len(o) : o[k] \in {Raised("refresh"), Raised("find_local_games")}

\* C11: any exception the local install tracker raises during an
\* installed-rescan, from refresh() or from find_local_games(), is reported
\* once and treated as no local games found: local_games is unchanged and the
\* installed task goes on to its sleep instead of ending with the exception.
C11_TrackerFailureContained ==
    [][(check_installed_task' # check_installed_task /\ TrackerRaised(out')) =>
           /\ Count(out', <<"report", "None">>) = 1
           /\ local_games' = local_games
           /\ check_installed_task' = "sleep"]_vars

\* ------------------------------------------------------ failed tasks (C12)

\* C12: a background task that ended with an exception has freed its slot:
\* the next tick() creates a task for the slot under the same condition as
\* after a task that returned (ownership: the event is clear; the two others:
\* always), and tick() itself raises nothing.
C12_FailedSlotFreed ==
    [][IsTick' =>
         /\ (check_owned_task = "failed" /\ ~getting_owned_games) =>
                (Created("owned")' = 1 /\ check_owned_task' = "created")
         /\ (check_owned_task \in {"done", "failed"} /\ getting_owned_games) =>
                (Created("owned")' = 0 /\ check_owned_task' = check_owned_task)
         /\ check_statuses_task = "failed" =>
                (Created("statuses")' = 1 /\ check_statuses_task' = "created")
         /\ check_installed_task = "failed" =>
                (Created("installed")' = 1 /\ check_installed_task' = "created")
         /\ \A k \in 1..Len(out') : out'[k][1] \notin {"raise", "raised"}]_vars

\* The tasks of all three slots have ended with an exception.
C12_Witness ==
    /\ check_owned_task = "failed"
    /\ check_statuses_task = "failed"
    /\ check_installed_task = "failed"

\* ------------------------------------------- launch and uninstall (C13, C17)

\* The latest step was launch_game(id) or uninstall_game(id).
IsLaunch(o, id) == Len(o) > 0 /\ o[1] = <<"launch_game", id>>
IsUninstall(o, id) == Len(o) > 0 /\ o[1] = <<"uninstall_game", id>>

\* How many entries of the log o are of kind what ("run", "uninstall", "report").
Kind(o, what) == Cardinality({k \in 1..Len(o) : o[k][1] = what})

\* C13: launch_game(id) and uninstall_game(id) for an id that is not a key of
\* local_games report the problem once and call neither run() nor
\* uninstall(); for an id that is a key they call exactly that game's run()
\* (resp. uninstall()) and report nothing.  Either way they raise nothing and
\* leave local_games, owned_games and cached_game_states unchanged.
C13_LaunchUninstall ==
    [][\A id \in Ids :
         /\ IsLaunch(out', id) =>
              /\ Kind(out', "uninstall") = 0
              /\ Kind(out', "raise") = 0 /\ Kind(out', "raised") = 0
              /\ IF id \in DOMAIN local_games
                   THEN /\ Kind(out', "report") = 0
                        /\ Kind(out', "run") = 1 /\ Count(out', <<"run", id>>) = 1
                   ELSE Kind(out', "report") = 1 /\ Kind(out', "run") = 0
              /\ UNCHANGED <<local_games, owned_games, cached_game_states>>
         /\ IsUninstall(out', id) =>
              /\ Kind(out', "run") = 0
              /\ Kind(out', "raise") = 0 /\ Kind(out', "raised") = 0
              /\ IF id \in DOMAIN local_games
                   THEN /\ Kind(out', "report") = 0
                        /\ Kind(out', "uninstall") = 1
                        /\ Count(out', <<"uninstall", id>>) = 1
                   ELSE Kind(out', "report") = 1 /\ Kind(out', "uninstall") = 0
              /\ UNCHANGED <<local_games, owned_games, cached_game_states>>]_vars

\* uninstall_game was called for an id that is not a local game while
\* another id is one.
C13_Witness ==
    /\ IsUninstall(out, "b")
    /\ DOMAIN local_games = {"a"}

\* launch_game was called for a local game.
C13_WitnessKnown ==
    /\ IsLaunch(out, "a")
    /\ "a" \in DOMAIN local_games

\* find_local_games returned in the latest step, to the installed task or to
\* a get_local_games call of the host; obs is what it returned.
IsFound(o) == Len(o) > 0 /\ o[1] = <<"found", "local_games">>

\* C17: the key set of local_games never shrinks, whatever the operations
\* (rescans, get_local_games calls, libraries losing a game, launch,
\* uninstall); a rescan overwrites the entry of every id it reports, adds the
\* ids that are new and leaves every other entry in place.
C17_LocalGamesGrowOnly ==
    /\ [][DOMAIN local_games \subseteq DOMAIN local_games']_vars
    /\ [][IsFound(out') =>
            /\ DOMAIN local_games' = DOMAIN local_games \cup DOMAIN obs'
            /\ \A i \in DOMAIN local_games' :
                  local_games'[i] = IF i \in DOMAIN obs' THEN obs'[i]
                                    ELSE local_games[i]]_vars

\* A rescan reported the second install of a and did not report b, a local
\* game that the library does not hold.
C17_Witness ==
    /\ IsFound(out)
    /\ obs = [i \in {"a"} |-> "inst2"]
    /\ local_games = [i \in {"a", "b"} |-> IF i = "a" THEN "inst2" ELSE "inst1"]
    /\ owned_games = {"a"}

\* ------------------------------------------------ ownership refresh (C14-)

\* A step of the ownership task from its start to its first suspension or end.
OwnedCycleBegins == check_owned_task = "created" /\ check_owned_task' # "created"

\* C14: when a cycle detected a changed config and its CACHE resolve failed,
\* the work is retried: a later cycle that starts while the config was not
\* changed again and the resolve was not redone performs the resolve.
C14_FailedResolveRetried ==
    [][(OwnedCycleBegins /\ unresolved) => check_owned_task' = "resolving"]_vars

\* The ownership task is in progress: created and not yet finished.
OwnedTaskInProgress == check_owned_task \in {"created", "resolving"}

\* C15: whenever neither a get_owned_games call nor an ownership task is in
\* progress, the host's view of the owned set (the ids of the last
\* get_owned_games result, with the later add_game and remove_game
\* notifications applied in order) is the key set of owned_games.
C15_HostViewConsistent ==
    (~ForegroundInProgress /\ ~OwnedTaskInProgress) => host_owned = owned_games

\* The step emitted no add_game and no remove_game.
Silent(o) == Kind(o, "add_game") = 0 /\ Kind(o, "remove_game") = 0

Removals(o) == {k \in 1..Len(o) : o[k][1] = "remove_game"}
Additions(o) == {k \in 1..Len(o) : o[k][1] = "add_game"}

\* C18: the cycle that replaces owned_games emits all its notifications in
\* the same uninterrupted step, which also ends the task: every removal
\* precedes every addition, and no other step emits add_game or remove_game.
C18_DeltaAtomicOrdered ==
    /\ [][(check_owned_task = "resolving" /\ check_owned_task' = "done") =>
            /\ {out'[k][2] : k \in Removals(out')} = old_ids \ owned_games'
            /\ {out'[k][2] : k \in Additions(out')} = owned_games' \ old_ids
            /\ Removals(out') \cup Additions(out') = 1..Len(out')
            /\ \A r \in Removals(out'), a \in Additions(out') : r < a]_vars
    /\ [][~Silent(out') =>
            (check_owned_task = "resolving" /\ check_owned_task' = "done")]_vars

\* A cycle has just removed two games and added one.
C18_Witness ==
    /\ Cardinality(Removals(out)) = 2
    /\ Cardinality(Additions(out)) = 1
    /\ check_owned_task = "done"

\* ------------------------------------------------------ who writes (C19, C20)

\* The latest step belongs to: a get_owned_games call returning, the
\* ownership task ending its resolve, the status task, an install_game call.
GogReturns(o) == o = <<<<"return", "get_owned_games">>>>
OwnedTaskResolves == check_owned_task = "resolving" /\ check_owned_task' = "done"
StatusTaskRuns == check_statuses_task = "created" /\ check_statuses_task' # "created"
IsInstall(o) == Len(o) > 0 /\ o[1][1] = "install_game"

\* C19: owned_games is changed only by get_owned_games and the ownership
\* task, local_games only by get_local_games (called by the host or by the
\* installed task), cached_game_states only by the status task; tick(),
\* install_game, launch_game and uninstall_game change none of the three and
\* the status task changes neither owned_games nor local_games.
C19_Writers ==
    /\ [][owned_games' # owned_games => (GogReturns(out') \/ OwnedTaskResolves)]_vars
    /\ [][local_games' # local_games => IsFound(out')]_vars
    /\ [][cached_game_states' # cached_game_states => StatusTaskRuns]_vars
    /\ [][(\/ IsTick'
           \/ IsInstall(out') \/ install_calls' # install_calls
           \/ \E id \in Ids : IsLaunch(out', id) \/ IsUninstall(out', id)) =>
            UNCHANGED <<owned_games, local_games, cached_game_states>>]_vars
    /\ [][StatusTaskRuns => UNCHANGED <<owned_games, local_games>>]_vars

\* uninstall_game has just run for a local game while the library and the
\* state cache hold it too.
C19_Witness ==
    /\ IsUninstall(out, "a")
    /\ owned_games = {"a"}
    /\ DOMAIN local_games = {"a"}
    /\ DOMAIN cached_game_states = {"a"}

\* The resolver raised in the step that produced the log o.
ResolveFailed(o, mode) == \E k \in 1..Len(o) : o[k] = ResolverRaised(mode)

C20_WitnessCache ==
    /\ ResolveFailed(out, "CACHE")
    /\ owned_games # {}
    /\ check_owned_task = "failed"

\* ------------------------------------------------------------------ liveness

\* The scheduler alone: the host ticks and calls get_owned_games, the
\* config is left alone and no game is installed locally.
NextFair ==
    \/ Tick
    \/ OwnedSleepDone
    \/ StatusesSleepDone
    \/ InstalledSleepDone
    \/ GetOwnedGamesCall
    \/ GetOwnedGamesReturn(Ids)
    \/ GetOwnedGamesRaise
    \/ CheckOwnedBegin
    \/ CheckStatusesRun(EmptyMap)
    \/ CheckInstalledBegin
    \/ CheckInstalledFound(EmptyMap)
    \/ CheckInstalledFindRaise

\* The host keeps calling tick(), and does so at moments when no
\* get_owned_games call is in progress if such moments keep coming; every
\* sleep, every resolve and every task step the event loop can run does run.
Fairness ==
    /\ WF_vars(Tick)
    /\ SF_vars(Tick /\ ~ForegroundInProgress)
    /\ WF_vars(OwnedSleepDone)
    /\ WF_vars(StatusesSleepDone)
    /\ WF_vars(InstalledSleepDone)
    /\ WF_vars(GetOwnedGamesReturn(Ids) \/ GetOwnedGamesRaise)
    /\ WF_vars(CheckOwnedBegin)
    /\ WF_vars(CheckStatusesRun(EmptyMap))
    /\ WF_vars(CheckInstalledBegin)
    /\ WF_vars(CheckInstalledFound(EmptyMap) \/ CheckInstalledFindRaise)

SpecFair == Init /\ [][NextFair]_vars /\ Fairness

\* C9: under that fairness, if every foreground call finishes (from some
\* moment on none is in progress), a new task is created in each of the
\* three slots again and again.
C9_NoStarvation ==
    <>[](~ForegroundInProgress) =>
        /\ []<>(check_owned_task = "created")
        /\ []<>(check_statuses_task = "created")
        /\ []<>(check_installed_task = "created")

====
